---- MODULE Spec2Model ----
(***************************************************************************)
(* LIN bus raw UART parser (docs/LIN_analysis/01_parsing/lin_parser.py).   *)
(* LINParser.parse_frames scans the loaded (timestamp, byte_hex) tuples    *)
(* with a cursor i; at every byte equal to the sync byte it calls          *)
(* _extract_frame, which resolves the end of the frame by sync lookahead,  *)
(* the 11-byte cap and the inter-byte timing gap.  One iteration of the    *)
(* while loop is one step of the model.  Indices are 0-based as in the     *)
(* code; the TLA+ sequence bytes_data is read through ByteTime/ByteHex.    *)
(***************************************************************************)
EXTENDS Integers, Sequences, FiniteSets, TLC

VARIABLES
    bytes_data,   \* LINParser.bytes_data: sequence of <<timestamp, byte_hex>>
    i,            \* parse_frames: the scan cursor
    frames,       \* parse_frames: the frames appended so far
    starts,       \* history: starts[k] is the sync_idx frames[k] was extracted at
    ends,         \* history: ends[k] is the final frame_end_idx of frames[k]
    pc,           \* position: "load_open", "load_header", "load_rows",
                  \* "load_done" in load_capture; "parsing" inside the while
                  \* loop of parse_frames, "done" after its return
    returned,     \* history: the lists returned by the completed parse_frames calls
    lines,        \* load_capture: f.readlines(), each line as its comma-separated fields
    readable,     \* load_capture: whether open(self.input_file) succeeds
    ln,           \* load_capture: index of the line the loops look at
    result,       \* load_capture: the value returned, "unset" before the return
    grouper,      \* which grouper runs: "LIN" or "CAN"
    rows,         \* load_and_group: the rows csv.DictReader yields
    row_no,       \* load_and_group: the number of rows taken from the reader
    objs,         \* the LINMessage / CANMessage objects, in order of creation
    unique_messages,  \* grouper.unique_messages: signature -> object
    messages_by_id,   \* grouper.messages_by_id: ID -> list of objects
    group_result, \* load_and_group: the value returned, "unset" before the return
    file_a,       \* LINComparator: the rows of the grouped file A
    file_b,       \* LINComparator: the rows of the grouped file B
    cmp_row,      \* load_messages: rows taken from the reader of the current file
    set_a,        \* LINComparator.set_a.messages: signature -> message
    set_b,        \* LINComparator.set_b.messages: signature -> message
    load_ok,      \* load_messages: the value returned, "unset" before the return
    msgs_unique_to_a, \* compare: first list returned
    msgs_unique_to_b, \* compare: second list returned
    serial_in,    \* read_serial: the lines ser.readline() will return, in order
    rx,           \* read_serial: the number of lines read so far
    raw_file,     \* read_serial: the lines written to output_file
    csv_started,  \* read_serial: csv_started
    csv_lines,    \* read_serial: csv_lines
    csv_file,     \* read_serial: the lines of csv_file as last written
    csv_writes    \* history: how often csv_file has been written

fileVars == <<lines, readable, ln, result>>

parserVars == <<bytes_data, i, frames, starts, ends, returned, fileVars>>

groupVars == <<grouper, rows, row_no, objs, unique_messages, messages_by_id,
               group_result>>

cmpVars == <<file_a, file_b, cmp_row, set_a, set_b, load_ok,
             msgs_unique_to_a, msgs_unique_to_b>>

logVars == <<serial_in, rx, raw_file, csv_started, csv_lines, csv_file, csv_writes>>

toolVars == <<groupVars, cmpVars, logVars>>

vars == <<bytes_data, i, frames, starts, ends, pc, returned, fileVars, toolVars>>

----------------------------------------------------------------------------
(* Bounds of the input space.                                              *)

MaxLen == 6         \* short captures: every length 0..MaxLen, every token
MaxGaps == 2        \* short captures: at most this many inter-frame-sized gaps
LongExtra == 2      \* long captures: lengths MaxFrameSpan..MaxFrameSpan+LongExtra
MaxSpecial == 3     \* long captures: at most this many sync / zero bytes
FairLen == 5        \* termination runs: short captures of length 0..FairLen
MaxSerial == 5      \* serial sessions: 0..MaxSerial lines arrive
MaxRowsA == 3       \* compared files: file A has 0..MaxRowsA rows
MaxRowsB == 2       \* compared files: file B has 0..MaxRowsB rows
MaxRows == 4        \* grouped files: every file of 0..MaxRows rows
MaxLines == 5       \* capture files: every file of 0..MaxLines lines
MaxCalls == 2       \* repeated calls: parse_frames is called up to MaxCalls times
FairSpecial == 2    \* termination runs: sync / zero bytes in the long capture

(* Program constants.                                                      *)

SYNC_BYTE == "0x55"
ZERO_UPPER == "0X00"
SENTINEL_CHECKSUM == "0x00"
MaxFrameSpan == 11
GapLimit == 1000

(* Byte spacings of the generated captures: inside a frame, exactly at the  *)
(* gap threshold, and across an inter-frame gap.                            *)
SmallGap == GapLimit \div 10
EdgeGap == GapLimit
BigGap == 2 * GapLimit - SmallGap

NoBreak == "None"   \* Python None for break_byte
NoIdx == -1         \* Python None for next_sync_idx

LowerTokens == {"0x55", "0x00", "0x12"}
UpperTokens == {"0X55", "0X00", "0X12"}

Min(a, b) == IF a <= b THEN a ELSE b

SetMin(S) == CHOOSE m \in S : \A x \in S : m <= x

(* str.upper() on the byte tokens of a capture.                            *)
Upper(s) ==
    CASE s = "0x55" -> "0X55"
      [] s = "0x00" -> "0X00"
      [] s = "0x12" -> "0X12"
      [] OTHER -> s

----------------------------------------------------------------------------
(* Reading bytes_data.                                                     *)

NumBytes == Len(bytes_data)

ByteTime(j) == bytes_data[j + 1][1]

ByteHex(j) == bytes_data[j + 1][2]

IsSync(j) == Upper(ByteHex(j)) = Upper(SYNC_BYTE)

IsZero(j) == Upper(ByteHex(j)) = ZERO_UPPER

----------------------------------------------------------------------------
(* LINFrame.__init__                                                       *)

LINFrame(timestamp, break_byte, sync, pid, data, checksum) ==
    [timestamp |-> timestamp,
     break_byte |-> IF break_byte # NoBreak /\ break_byte # "" THEN break_byte ELSE "",
     sync |-> sync,
     pid |-> pid,
     data |-> data,
     checksum |-> checksum]

----------------------------------------------------------------------------
(* LINParser._extract_frame                                                *)

(* Mutant: the length check accepts a sync with one byte after it.         *)
InsufficientDataLoose(sync_idx) == sync_idx + 1 >= NumBytes

(* Mutant: the length check asks for three bytes after the sync.           *)
InsufficientDataStrict(sync_idx) == sync_idx + 3 >= NumBytes

InsufficientData(sync_idx) == sync_idx + 2 >= NumBytes

PidMissing(sync_idx) == sync_idx + 1 >= NumBytes

CanExtract(sync_idx) == ~InsufficientData(sync_idx) /\ ~PidMissing(sync_idx)

(* Mutant: the break byte is compared without upper().                     *)
BreakByteCaseSensitive(sync_idx) ==
    IF sync_idx > 0 /\ ByteHex(sync_idx - 1) = ZERO_UPPER
    THEN ByteHex(sync_idx - 1)
    ELSE NoBreak

BreakByte(sync_idx) ==
    IF sync_idx > 0 /\ IsZero(sync_idx - 1) THEN ByteHex(sync_idx - 1) ELSE NoBreak

(* Mutant: the cap allows one byte less after the sync.                    *)
MaxIdxOneShort(sync_idx) == Min(sync_idx + MaxFrameSpan - 1, NumBytes)

MaxIdx(sync_idx) == Min(sync_idx + MaxFrameSpan, NumBytes)

NextSyncIdx(sync_idx) ==
    LET found == {j \in (sync_idx + 2)..(NumBytes - 1) : IsSync(j)}
    IN  IF found = {} THEN NoIdx ELSE SetMin(found)

(* Mutant: the break byte before the next sync is not excluded.            *)
BoundaryEndNoShrink(sync_idx) ==
    LET next_sync_idx == NextSyncIdx(sync_idx)
    IN  IF next_sync_idx # NoIdx THEN next_sync_idx ELSE MaxIdx(sync_idx)

BoundaryEnd(sync_idx) ==
    LET next_sync_idx == NextSyncIdx(sync_idx)
    IN  IF next_sync_idx # NoIdx
        THEN IF next_sync_idx > 0 /\ IsZero(next_sync_idx - 1)
             THEN next_sync_idx - 1
             ELSE next_sync_idx
        ELSE MaxIdx(sync_idx)

(* Mutant: the lookahead boundary is used without the frame-length cap.    *)
ClampedEndNoCap(sync_idx) == BoundaryEnd(sync_idx)

ClampedEnd(sync_idx) == Min(BoundaryEnd(sync_idx), MaxIdx(sync_idx))

(* Mutant: the timing scan starts at the PID instead of the byte after it. *)
GapPairsFromPid(sync_idx, frame_end_idx) ==
    {j \in (sync_idx + 1)..(Min(frame_end_idx, NumBytes) - 2) :
        ByteTime(j + 1) - ByteTime(j) > GapLimit}

(* Mutant: a spacing of exactly the limit already counts as a gap.         *)
GapPairsAtLeast(sync_idx, frame_end_idx) ==
    {j \in (sync_idx + 2)..(Min(frame_end_idx, NumBytes) - 2) :
        ByteTime(j + 1) - ByteTime(j) >= GapLimit}

GapPairs(sync_idx, frame_end_idx) ==
    {j \in (sync_idx + 2)..(Min(frame_end_idx, NumBytes) - 2) :
        ByteTime(j + 1) - ByteTime(j) > GapLimit}

GapEnd(sync_idx, frame_end_idx) ==
    LET gaps == GapPairs(sync_idx, frame_end_idx)
    IN  IF gaps = {} THEN frame_end_idx ELSE SetMin(gaps) + 1

FrameEnd(sync_idx) == GapEnd(sync_idx, ClampedEnd(sync_idx))

DataBytes(sync_idx) ==
    LET current_idx == sync_idx + 2
        frame_end_idx == FrameEnd(sync_idx)
    IN  IF frame_end_idx <= current_idx THEN <<>>
        ELSE IF frame_end_idx = current_idx + 1 THEN <<>>
        ELSE [k \in 1..(frame_end_idx - 1 - current_idx) |-> ByteHex(current_idx + k - 1)]

(* Mutant: without a byte beyond the PID the checksum is still read from   *)
(* the input.                                                              *)
ChecksumNoSentinel(sync_idx) ==
    LET current_idx == sync_idx + 2
        frame_end_idx == FrameEnd(sync_idx)
    IN  IF frame_end_idx <= current_idx + 1 THEN ByteHex(current_idx)
        ELSE ByteHex(frame_end_idx - 1)

(* Mutant: with several bytes beyond the PID the checksum is read one byte *)
(* early.                                                                  *)
ChecksumOneEarly(sync_idx) ==
    LET current_idx == sync_idx + 2
        frame_end_idx == FrameEnd(sync_idx)
    IN  IF frame_end_idx <= current_idx THEN SENTINEL_CHECKSUM
        ELSE IF frame_end_idx = current_idx + 1 THEN ByteHex(current_idx)
        ELSE ByteHex(frame_end_idx - 2)

Checksum(sync_idx) ==
    LET current_idx == sync_idx + 2
        frame_end_idx == FrameEnd(sync_idx)
    IN  IF frame_end_idx <= current_idx THEN SENTINEL_CHECKSUM
        ELSE IF frame_end_idx = current_idx + 1 THEN ByteHex(current_idx)
        ELSE ByteHex(frame_end_idx - 1)

(* The indices of bytes_data that _extract_frame(sync_idx) subscripts once *)
(* its length checks have passed: the sync and the byte before it, the     *)
(* PID, the lookahead up to the next sync and the byte before that sync,   *)
(* the pairs of the timing scan up to its break, data and checksum.        *)
ReadIndices(sync_idx) ==
    LET current_idx == sync_idx + 2
        next_sync_idx == NextSyncIdx(sync_idx)
        clamped == ClampedEnd(sync_idx)
        gaps == GapPairs(sync_idx, clamped)
        lastPair == IF gaps = {} THEN Min(clamped, NumBytes) - 2 ELSE SetMin(gaps)
        frame_end_idx == FrameEnd(sync_idx)
    IN  {sync_idx, sync_idx + 1}
          \cup (IF sync_idx > 0 THEN {sync_idx - 1} ELSE {})
          \cup (IF next_sync_idx # NoIdx
                THEN current_idx..next_sync_idx
                ELSE current_idx..(NumBytes - 1))
          \cup (IF next_sync_idx # NoIdx /\ next_sync_idx > 0
                THEN {next_sync_idx - 1} ELSE {})
          \cup UNION {{j, j + 1} : j \in current_idx..lastPair}
          \cup (IF frame_end_idx <= current_idx THEN {}
                ELSE IF frame_end_idx = current_idx + 1 THEN {current_idx}
                ELSE current_idx..(frame_end_idx - 1))

(* Mutant: the frame is stamped with the time of its PID byte.              *)
ExtractFrameTimeOfPid(sync_idx) ==
    LINFrame(ByteTime(sync_idx + 1), BreakByte(sync_idx), ByteHex(sync_idx),
             ByteHex(sync_idx + 1), DataBytes(sync_idx), Checksum(sync_idx))

(* Mutant: the PID is read one byte too far.                               *)
ExtractFramePidShifted(sync_idx) ==
    LINFrame(ByteTime(sync_idx), BreakByte(sync_idx), ByteHex(sync_idx),
             ByteHex(sync_idx + 2), DataBytes(sync_idx), Checksum(sync_idx))

ExtractFrame(sync_idx) ==
    LINFrame(ByteTime(sync_idx), BreakByte(sync_idx), ByteHex(sync_idx),
             ByteHex(sync_idx + 1), DataBytes(sync_idx), Checksum(sync_idx))

----------------------------------------------------------------------------
(* LINParser.parse_frames                                                  *)

(* Mutant: the cursor skips sync, PID and data but not the checksum.        *)
FrameLenNoChecksum(frame) == 1 + 1 + Len(frame.data)

FrameLen(frame) == 1 + 1 + Len(frame.data) + 1

(* Mutant: a failed extraction leaves the cursor where it is.               *)
FailAdvanceStuck == 1 - 1

FailAdvance == 1

ScanSkip ==
    /\ pc = "parsing"
    /\ i < NumBytes
    /\ ~IsSync(i)
    /\ i' = i + 1
    /\ UNCHANGED <<bytes_data, frames, starts, ends, pc, returned, fileVars, toolVars>>

ScanFrame ==
    /\ pc = "parsing"
    /\ i < NumBytes
    /\ IsSync(i)
    /\ CanExtract(i)
    /\ frames' = Append(frames, ExtractFrame(i))
    /\ starts' = Append(starts, i)
    /\ ends' = Append(ends, FrameEnd(i))
    /\ i' = i + FrameLen(ExtractFrame(i))
    /\ UNCHANGED <<bytes_data, pc, returned, fileVars, toolVars>>

ScanFail ==
    /\ pc = "parsing"
    /\ i < NumBytes
    /\ IsSync(i)
    /\ ~CanExtract(i)
    /\ i' = i + FailAdvance
    /\ UNCHANGED <<bytes_data, frames, starts, ends, pc, returned, fileVars, toolVars>>

Finish ==
    /\ pc = "parsing"
    /\ ~(i < NumBytes)
    /\ pc' = "done"
    /\ returned' = Append(returned, frames)
    /\ UNCHANGED <<bytes_data, i, frames, starts, ends, fileVars, toolVars>>

(* Mutant: a further call keeps the frames of the call before.             *)
ParseFramesAgainKeepFrames ==
    /\ pc = "done"
    /\ Len(returned) < MaxCalls
    /\ i' = 0
    /\ pc' = "parsing"
    /\ UNCHANGED <<bytes_data, frames, starts, ends, returned, fileVars, toolVars>>

(* A further call of parse_frames on the same parser: frames and i are     *)
(* locals, initialised anew.                                               *)
ParseFramesAgain ==
    /\ pc = "done"
    /\ Len(returned) < MaxCalls
    /\ i' = 0
    /\ frames' = <<>>
    /\ starts' = <<>>
    /\ ends' = <<>>
    /\ pc' = "parsing"
    /\ UNCHANGED <<bytes_data, returned, fileVars, toolVars>>

----------------------------------------------------------------------------
(* LINParser.load_capture                                                  *)
(* A line of the file is the sequence of its comma-separated fields (what  *)
(* line.split(',') gives), without the newline.  The string functions the  *)
(* code applies are tabulated over the fields that occur in LineKinds.     *)

HEADER_LINE == <<"Timestamp_us", "Byte_Hex">>
END_LINE == <<"=== End of Capture ===">>
BANNER_LINE == <<"=== LIN Capture ===">>
BLANK_LINE == <<"">>

LineKinds ==
    {HEADER_LINE, END_LINE, BANNER_LINE, BLANK_LINE,
     <<"100", "0x55">>,          \* a byte row
     <<"250", " 0x12 ">>,        \* a byte row, blanks around the token
     <<"abc", "0x55">>,          \* timestamp is no integer
     <<"100", "0x55", "7">>}     \* three fields

(* str.lstrip(), str.rstrip() and str.strip() on a field.                  *)
LStrip(field) ==
    CASE field = " 0x12 " -> "0x12 "
      [] field = " 0x12" -> "0x12"
      [] OTHER -> field

RStrip(field) ==
    CASE field = " 0x12 " -> " 0x12"
      [] field = "0x12 " -> "0x12"
      [] OTHER -> field

Strip(field) == LStrip(RStrip(field))

(* line.strip(): whitespace goes from the front of the first field and the *)
(* back of the last one.                                                   *)
StripLine(line) ==
    [k \in 1..Len(line) |->
        IF k = 1 /\ k = Len(line) THEN Strip(line[k])
        ELSE IF k = 1 THEN LStrip(line[k])
        ELSE IF k = Len(line) THEN RStrip(line[k])
        ELSE line[k]]

(* 'Timestamp_us,Byte_Hex' in line                                         *)
ContainsHeader(line) ==
    \E k \in 1..(Len(line) - 1) :
        line[k] = "Timestamp_us" /\ line[k + 1] = "Byte_Hex"

(* line.startswith('===')                                                  *)
StartsWithEquals(line) ==
    line[1] \in {"=== End of Capture ===", "=== LIN Capture ==="}

(* 'End' in line                                                           *)
ContainsEnd(line) ==
    \E k \in 1..Len(line) : line[k] = "=== End of Capture ==="

(* int(parts[0]): the value, or ValueError                                 *)
IntParses(field) == field \in {"100", "250"}

IntOf(field) ==
    CASE field = "100" -> 100
      [] field = "250" -> 250

NumLines == Len(lines)

Line(j) == lines[j + 1]

(* The return statement of line 103.                                       *)
(* Mutant: True whenever the header was found.                             *)
LoadResultHeaderSeen(loaded, lineNo) ==
    IF lineNo > 0 THEN "True" ELSE "False"

LoadResult(loaded, lineNo) ==
    IF Len(loaded) > 0 THEN "True" ELSE "False"

(* Mutant: a row with more than two fields is loaded as well.              *)
RowParsesLoose(parts) == Len(parts) >= 2 /\ IntParses(parts[1])

RowParses(parts) == Len(parts) = 2 /\ IntParses(parts[1])

RowStops(line) == StartsWithEquals(line) \/ line = <<"">>

OpenFails ==
    /\ pc = "load_open"
    /\ ~readable
    /\ result' = "False"
    /\ pc' = "load_done"
    /\ UNCHANGED <<bytes_data, i, frames, starts, ends, returned, lines, readable, ln, toolVars>>

ReadLines ==
    /\ pc = "load_open"
    /\ readable
    /\ ln' = 0
    /\ pc' = "load_header"
    /\ UNCHANGED <<bytes_data, i, frames, starts, ends, returned, lines, readable, result, toolVars>>

HeaderFound ==
    /\ pc = "load_header"
    /\ ln < NumLines
    /\ ContainsHeader(Line(ln))
    /\ ln' = ln + 1
    /\ pc' = "load_rows"
    /\ UNCHANGED <<bytes_data, i, frames, starts, ends, returned, lines, readable, result, toolVars>>

EndBeforeHeader ==
    /\ pc = "load_header"
    /\ ln < NumLines
    /\ ~ContainsHeader(Line(ln))
    /\ StartsWithEquals(StripLine(Line(ln))) /\ ContainsEnd(Line(ln))
    /\ result' = "False"
    /\ pc' = "load_done"
    /\ UNCHANGED <<bytes_data, i, frames, starts, ends, returned, lines, readable, ln, toolVars>>

HeaderSkip ==
    /\ pc = "load_header"
    /\ ln < NumLines
    /\ ~ContainsHeader(Line(ln))
    /\ ~(StartsWithEquals(StripLine(Line(ln))) /\ ContainsEnd(Line(ln)))
    /\ ln' = ln + 1
    /\ UNCHANGED <<bytes_data, i, frames, starts, ends, pc, returned, lines, readable, result, toolVars>>

HeaderMissing ==
    /\ pc = "load_header"
    /\ ~(ln < NumLines)
    /\ result' = "False"
    /\ pc' = "load_done"
    /\ UNCHANGED <<bytes_data, i, frames, starts, ends, returned, lines, readable, ln, toolVars>>

RowAppend ==
    /\ pc = "load_rows"
    /\ ln < NumLines
    /\ ~RowStops(StripLine(Line(ln)))
    /\ RowParses(StripLine(Line(ln)))
    /\ bytes_data' = Append(bytes_data,
                            <<IntOf(StripLine(Line(ln))[1]),
                              Strip(StripLine(Line(ln))[2])>>)
    /\ ln' = ln + 1
    /\ UNCHANGED <<i, frames, starts, ends, pc, returned, lines, readable, result, toolVars>>

RowSkip ==
    /\ pc = "load_rows"
    /\ ln < NumLines
    /\ ~RowStops(StripLine(Line(ln)))
    /\ ~RowParses(StripLine(Line(ln)))
    /\ ln' = ln + 1
    /\ UNCHANGED <<bytes_data, i, frames, starts, ends, pc, returned, lines, readable, result, toolVars>>

RowsEnd ==
    /\ pc = "load_rows"
    /\ \/ ~(ln < NumLines)
       \/ ln < NumLines /\ RowStops(StripLine(Line(ln)))
    /\ result' = LoadResult(bytes_data, ln)
    /\ pc' = "load_done"
    /\ UNCHANGED <<bytes_data, i, frames, starts, ends, returned, lines, readable, ln, toolVars>>

----------------------------------------------------------------------------
(* Captures handed to parse_frames.  A short capture takes every token at  *)
(* every position, one base spacing for the whole capture and a few        *)
(* positions whose spacing from the previous byte is BigGap.  A long       *)
(* capture is longer than the frame cap, evenly spaced, plain bytes but    *)
(* for a few sync / zero bytes.                                            *)

TimeAt(k, base, gapAt) ==
    base * (k - 1) + (BigGap - base) * Cardinality({g \in gapAt : g <= k})

ShortCapture(n, tok, base, gapAt) ==
    [k \in 1..n |-> <<TimeAt(k, base, gapAt), tok[k]>>]

LongCapture(n, special) ==
    [k \in 1..n |-> <<SmallGap * (k - 1),
                      IF k \in DOMAIN special THEN special[k] ELSE "0x12">>]

ShortCaptureLoaded(maxLen, maxGaps, tokenSets, bases) ==
    \E n \in 0..maxLen :
      \E T \in tokenSets :
        \E tok \in [1..n -> T] :
          \E base \in bases :
            \E gapAt \in SUBSET (2..n) :
              /\ Cardinality(gapAt) <= maxGaps
              /\ bytes_data = ShortCapture(n, tok, base, gapAt)

LongCaptureLoaded(minLen, maxLen, maxSpecial) ==
    \E n \in minLen..maxLen :
      \E at \in SUBSET (1..n) :
        /\ Cardinality(at) <= maxSpecial
        /\ \E special \in [at -> {"0x55", "0x00"}] :
             bytes_data = LongCapture(n, special)

(* The groupers, comparators and the serial logger are separate scripts:   *)
(* while the parser runs they have not been started.                       *)
GrouperIdle ==
    /\ grouper = "LIN"
    /\ rows = <<>>
    /\ row_no = 0
    /\ objs = <<>>
    /\ unique_messages = <<>>
    /\ messages_by_id = <<>>
    /\ group_result = "unset"

ComparatorIdle ==
    /\ file_a = <<>>
    /\ file_b = <<>>
    /\ cmp_row = 0
    /\ set_a = <<>>
    /\ set_b = <<>>
    /\ load_ok = "unset"
    /\ msgs_unique_to_a = <<>>
    /\ msgs_unique_to_b = <<>>

LoggerIdle ==
    /\ serial_in = <<>>
    /\ rx = 0
    /\ raw_file = <<>>
    /\ csv_started = FALSE
    /\ csv_lines = <<>>
    /\ csv_file = <<>>
    /\ csv_writes = 0

ToolsIdle == GrouperIdle /\ ComparatorIdle /\ LoggerIdle

ParseStart ==
    /\ i = 0
    /\ frames = <<>>
    /\ starts = <<>>
    /\ ends = <<>>
    /\ pc = "parsing"
    /\ returned = <<>>
    /\ lines = <<>>
    /\ readable = TRUE
    /\ ln = 0
    /\ result = "unset"
    /\ ToolsIdle

Init ==
    /\ \/ ShortCaptureLoaded(MaxLen, MaxGaps, {LowerTokens, UpperTokens},
                             {SmallGap, EdgeGap})
       \/ LongCaptureLoaded(MaxFrameSpan, MaxFrameSpan + LongExtra, MaxSpecial)
    /\ ParseStart

InitFair ==
    /\ \/ ShortCaptureLoaded(FairLen, MaxGaps, {LowerTokens}, {SmallGap})
       \/ LongCaptureLoaded(MaxFrameSpan + 1, MaxFrameSpan + 1, FairSpecial)
    /\ ParseStart

Next ==
    \/ ScanSkip
    \/ ScanFrame
    \/ ScanFail
    \/ Finish

Spec == Init /\ [][Next]_vars

(* parse_frames runs to completion once called: every enabled iteration is  *)
(* eventually taken.                                                       *)
FairSpec == InitFair /\ [][Next]_vars /\ WF_vars(Next)

(* parse_frames called up to MaxCalls times on the same loaded capture.    *)
NextAgain ==
    \/ Next
    \/ ParseFramesAgain

SpecAgain == InitFair /\ [][NextAgain]_vars

(* load_capture on a freshly constructed parser: every file of up to       *)
(* MaxLines lines drawn from LineKinds, and a file that cannot be opened.  *)
InitLoad ==
    /\ \/ readable = FALSE /\ lines = <<>>
       \/ /\ readable = TRUE
          /\ \E n \in 0..MaxLines : \E file \in [1..n -> LineKinds] : lines = file
    /\ bytes_data = <<>>
    /\ i = 0
    /\ frames = <<>>
    /\ starts = <<>>
    /\ ends = <<>>
    /\ returned = <<>>
    /\ ln = 0
    /\ result = "unset"
    /\ pc = "load_open"
    /\ ToolsIdle

NextLoad ==
    \/ OpenFails
    \/ ReadLines
    \/ HeaderFound
    \/ EndBeforeHeader
    \/ HeaderSkip
    \/ HeaderMissing
    \/ RowAppend
    \/ RowSkip
    \/ RowsEnd

SpecLoad == InitLoad /\ [][NextLoad]_vars

----------------------------------------------------------------------------
(* LINMessageGrouper.load_and_group and CANMessageGrouper.load_and_group   *)
(* (docs/LIN_analysis/02_grouping/lin_message_grouper.py,                  *)
(* docs/CAN_analysis/01_grouping/can_message_grouper.py).  A row is the    *)
(* dict csv.DictReader yields; one row of the for loop is one step.  The   *)
(* message objects live in objs, and both dictionaries hold indices into   *)
(* objs, as the code's dictionaries hold references to the same objects.   *)

LINRow(ts, brk, id) ==
    [Timestamp_us |-> ts, Break |-> brk, Sync |-> "0x55", ID |-> id,
     Data |-> "0x01 0x02", Checksum |-> "0xFF"]

CANRow(ts, id, d0) ==
    [Timestamp_s |-> ts, ID |-> id, Extended |-> "0", RTR |-> "0",
     Length |-> "1", D |-> <<d0, "", "", "", "", "", "", "">>]

LINRowKinds ==
    {LINRow(ts, brk, id) : ts \in {"10", "20"}, brk \in {"", "0x00"},
                           id \in {"0x12", "0x34"}}
      \cup {LINRow("", "", "0x12")}

CANRowKinds ==
    {CANRow(ts, id, d0) : ts \in {"0.010", "0.020"}, id \in {"0x100", "0x200"},
                          d0 \in {"01", "02"}}
      \cup {CANRow("", "0x100", "01")}

(* int(row['Timestamp_us']) and float(row['Timestamp_s']): whether the     *)
(* text converts, and its value; seconds are kept in thousandths.          *)
TimestampParses(row) ==
    IF grouper = "LIN" THEN row.Timestamp_us \in {"10", "20"}
    ELSE row.Timestamp_s \in {"0.010", "0.020"}

TimestampOf(row) ==
    IF grouper = "LIN"
    THEN CASE row.Timestamp_us = "10" -> 10
           [] row.Timestamp_us = "20" -> 20
    ELSE CASE row.Timestamp_s = "0.010" -> 10
           [] row.Timestamp_s = "0.020" -> 20

(* signature = (...) of load_and_group                                     *)
RowSignature(row) ==
    IF grouper = "LIN"
    THEN <<row.Break, row.Sync, row.ID, row.Data, row.Checksum>>
    ELSE <<row.ID, row.Extended, row.RTR, row.Length, row.D>>

(* LINMessage(...) / CANMessage(...): count 0, no timestamps                *)
NewMessage(row) ==
    IF grouper = "LIN"
    THEN [break_byte |-> row.Break, sync |-> row.Sync, msg_id |-> row.ID,
          data |-> row.Data, checksum |-> row.Checksum,
          count |-> 0, timestamps |-> <<>>]
    ELSE [msg_id |-> row.ID, extended |-> row.Extended, rtr |-> row.RTR,
          length |-> row.Length, data_bytes |-> row.D,
          count |-> 0, timestamps |-> <<>>]

(* get_signature                                                           *)
GetSignature(msg) ==
    IF grouper = "LIN"
    THEN <<msg.break_byte, msg.sync, msg.msg_id, msg.data, msg.checksum>>
    ELSE <<msg.msg_id, msg.extended, msg.rtr, msg.length, msg.data_bytes>>

(* Mutant: an occurrence is counted but its timestamp is not kept.         *)
AddOccurrenceCountOnly(msg, timestamp) ==
    [msg EXCEPT !.count = @ + 1]

(* add_occurrence                                                          *)
AddOccurrence(msg, timestamp) ==
    [msg EXCEPT !.count = @ + 1, !.timestamps = Append(@, timestamp)]

(* d[key] = value on a dictionary kept as a function.                      *)
DictSet(d, key, value) ==
    [k \in DOMAIN d \cup {key} |-> IF k = key THEN value ELSE d[k]]

(* defaultdict(list): d[key].append(value)                                 *)
DictAppend(d, key, value) ==
    DictSet(d, key, IF key \in DOMAIN d THEN Append(d[key], value) ELSE <<value>>)

NextRow == rows[row_no + 1]

GroupSeen ==
    /\ pc = "grouping"
    /\ row_no < Len(rows)
    /\ TimestampParses(NextRow)
    /\ RowSignature(NextRow) \in DOMAIN unique_messages
    /\ objs' = [objs EXCEPT ![unique_messages[RowSignature(NextRow)]] =
                    AddOccurrence(@, TimestampOf(NextRow))]
    /\ row_no' = row_no + 1
    /\ UNCHANGED <<pc, parserVars, cmpVars, logVars, grouper, rows,
                   unique_messages, messages_by_id, group_result>>

GroupNew ==
    /\ pc = "grouping"
    /\ row_no < Len(rows)
    /\ TimestampParses(NextRow)
    /\ RowSignature(NextRow) \notin DOMAIN unique_messages
    /\ objs' = Append(objs, AddOccurrence(NewMessage(NextRow), TimestampOf(NextRow)))
    /\ unique_messages' = DictSet(unique_messages, RowSignature(NextRow), Len(objs) + 1)
    /\ messages_by_id' = DictAppend(messages_by_id, NextRow.ID, Len(objs) + 1)
    /\ row_no' = row_no + 1
    /\ UNCHANGED <<pc, parserVars, cmpVars, logVars, grouper, rows, group_result>>

(* The conversion of the timestamp raises: except Exception, return False. *)
GroupFail ==
    /\ pc = "grouping"
    /\ row_no < Len(rows)
    /\ ~TimestampParses(NextRow)
    /\ group_result' = "False"
    /\ pc' = "grouped"
    /\ UNCHANGED <<parserVars, cmpVars, logVars, grouper, rows, row_no, objs,
                   unique_messages, messages_by_id>>

GroupEnd ==
    /\ pc = "grouping"
    /\ ~(row_no < Len(rows))
    /\ group_result' = "True"
    /\ pc' = "grouped"
    /\ UNCHANGED <<parserVars, cmpVars, logVars, grouper, rows, row_no, objs,
                   unique_messages, messages_by_id>>

ParserIdle ==
    /\ bytes_data = <<>>
    /\ i = 0
    /\ frames = <<>>
    /\ starts = <<>>
    /\ ends = <<>>
    /\ returned = <<>>
    /\ lines = <<>>
    /\ readable = TRUE
    /\ ln = 0
    /\ result = "unset"

(* A freshly constructed grouper of either kind and every file of up to    *)
(* MaxRows rows.                                                           *)
InitGroup ==
    /\ \/ /\ grouper = "LIN"
          /\ \E n \in 0..MaxRows : \E file \in [1..n -> LINRowKinds] : rows = file
       \/ /\ grouper = "CAN"
          /\ \E n \in 0..MaxRows : \E file \in [1..n -> CANRowKinds] : rows = file
    /\ row_no = 0
    /\ objs = <<>>
    /\ unique_messages = <<>>
    /\ messages_by_id = <<>>
    /\ group_result = "unset"
    /\ pc = "grouping"
    /\ ParserIdle
    /\ ComparatorIdle
    /\ LoggerIdle

NextGroup ==
    \/ GroupSeen
    \/ GroupNew
    \/ GroupFail
    \/ GroupEnd

SpecGroup == InitGroup /\ [][NextGroup]_vars

----------------------------------------------------------------------------
(* LINComparator (docs/LIN_analysis/03_comparison/lin_comparison.py).      *)
(* load_messages reads the two grouped files row by row into set_a and     *)
(* set_b; compare runs after a successful load, as in main.                *)

GroupedRow(id, brk, data, count, timestamps) ==
    [ID |-> id, Break |-> brk, Sync |-> "0x55", Data |-> data,
     Checksum |-> "0xFF", Count |-> count, Timestamps |-> timestamps]

GroupedRowKinds ==
    {GroupedRow("0x12", "", "0x01", "1", "10"),
     GroupedRow("0x12", "0x00", "0x01", "2", "20,30"),
     GroupedRow("0x12", "", "0x02", "1", "40"),
     GroupedRow("0xA", "0x00", "0x01", "3", "50,60,70"),
     GroupedRow("0x12", "", "0x01", "", "")}

(* int(row['Count']): whether the text converts, and its value.            *)
CountParses(row) == row.Count \in {"1", "2", "3"}

CountOf(row) ==
    CASE row.Count = "1" -> 1
      [] row.Count = "2" -> 2
      [] row.Count = "3" -> 3

(* LINMessage(msg_id=..., data=..., checksum=..., count=..., timestamps=...) *)
ComparisonMessage(row) ==
    [msg_id |-> row.ID, data |-> row.Data, checksum |-> row.Checksum,
     count |-> CountOf(row), timestamps |-> row.Timestamps]

(* LINMessage.get_signature of the comparison script                       *)
ComparisonSignature(msg) == <<msg.msg_id, msg.data, msg.checksum>>

(* Mutant: a signature already in the set keeps its first message.         *)
AddMessageKeepFirst(messages, msg) ==
    IF ComparisonSignature(msg) \in DOMAIN messages THEN messages
    ELSE DictSet(messages, ComparisonSignature(msg), msg)

(* MessageSet.add_message                                                  *)
AddMessage(messages, msg) == DictSet(messages, ComparisonSignature(msg), msg)

(* MessageSet.get_signatures                                               *)
GetSignatures(messages) == DOMAIN messages

(* Mutant: nothing is taken away from the first set.                       *)
SetDifferenceNone(sigs_x, sigs_y) == sigs_x

(* sigs_a - sigs_b                                                         *)
SetDifference(sigs_x, sigs_y) == sigs_x \ sigs_y

(* The sort key (int(m.msg_id, 16), m.data): the value of the hexadecimal  *)
(* ID, then the data string.                                               *)
HexValue(msg_id) ==
    CASE msg_id = "0x12" -> 18
      [] msg_id = "0xA" -> 10

DataRank(data) ==
    CASE data = "0x01" -> 1
      [] data = "0x02" -> 2

SortKeyLeq(m1, m2) ==
    \/ HexValue(m1.msg_id) < HexValue(m2.msg_id)
    \/ HexValue(m1.msg_id) = HexValue(m2.msg_id) /\ DataRank(m1.data) <= DataRank(m2.data)

(* The lists list.sort can leave for the messages of the given signatures: *)
(* each message once, keys ascending.                                      *)
SortedMessages(messages, sigs) ==
    {l \in [1..Cardinality(sigs) -> {messages[s] : s \in sigs}] :
        /\ \A s \in sigs : \E k \in DOMAIN l : l[k] = messages[s]
        /\ \A k \in 1..(Cardinality(sigs) - 1) : SortKeyLeq(l[k], l[k + 1])}

LoadRowA ==
    /\ pc = "cmp_load_a"
    /\ cmp_row < Len(file_a)
    /\ CountParses(file_a[cmp_row + 1])
    /\ set_a' = AddMessage(set_a, ComparisonMessage(file_a[cmp_row + 1]))
    /\ cmp_row' = cmp_row + 1
    /\ UNCHANGED <<pc, parserVars, groupVars, logVars, file_a, file_b, set_b,
                   load_ok, msgs_unique_to_a, msgs_unique_to_b>>

FileADone ==
    /\ pc = "cmp_load_a"
    /\ ~(cmp_row < Len(file_a))
    /\ cmp_row' = 0
    /\ pc' = "cmp_load_b"
    /\ UNCHANGED <<parserVars, groupVars, logVars, file_a, file_b, set_a, set_b,
                   load_ok, msgs_unique_to_a, msgs_unique_to_b>>

LoadRowB ==
    /\ pc = "cmp_load_b"
    /\ cmp_row < Len(file_b)
    /\ CountParses(file_b[cmp_row + 1])
    /\ set_b' = AddMessage(set_b, ComparisonMessage(file_b[cmp_row + 1]))
    /\ cmp_row' = cmp_row + 1
    /\ UNCHANGED <<pc, parserVars, groupVars, logVars, file_a, file_b, set_a,
                   load_ok, msgs_unique_to_a, msgs_unique_to_b>>

FileBDone ==
    /\ pc = "cmp_load_b"
    /\ ~(cmp_row < Len(file_b))
    /\ load_ok' = "True"
    /\ pc' = "cmp_loaded"
    /\ UNCHANGED <<parserVars, groupVars, logVars, file_a, file_b, cmp_row, set_a,
                   set_b, msgs_unique_to_a, msgs_unique_to_b>>

(* int(row['Count']) raises: except Exception, return False.               *)
LoadMessagesFail ==
    /\ pc \in {"cmp_load_a", "cmp_load_b"}
    /\ LET file == IF pc = "cmp_load_a" THEN file_a ELSE file_b
       IN  cmp_row < Len(file) /\ ~CountParses(file[cmp_row + 1])
    /\ load_ok' = "False"
    /\ pc' = "cmp_failed"
    /\ UNCHANGED <<parserVars, groupVars, logVars, file_a, file_b, cmp_row, set_a,
                   set_b, msgs_unique_to_a, msgs_unique_to_b>>

Compare ==
    /\ pc = "cmp_loaded"
    /\ LET sigs_a == GetSignatures(set_a)
           sigs_b == GetSignatures(set_b)
           unique_to_a == SetDifference(sigs_a, sigs_b)
           unique_to_b == SetDifference(sigs_b, sigs_a)
       IN  /\ msgs_unique_to_a' \in SortedMessages(set_a, unique_to_a)
           /\ msgs_unique_to_b' \in SortedMessages(set_b, unique_to_b)
    /\ pc' = "compared"
    /\ UNCHANGED <<parserVars, groupVars, logVars, file_a, file_b, cmp_row, set_a,
                   set_b, load_ok>>

(* A freshly constructed comparator and every pair of grouped files of up  *)
(* to MaxRowsA and MaxRowsB rows.                                          *)
InitCompare ==
    /\ \E n \in 0..MaxRowsA : \E file \in [1..n -> GroupedRowKinds] : file_a = file
    /\ \E n \in 0..MaxRowsB : \E file \in [1..n -> GroupedRowKinds] : file_b = file
    /\ cmp_row = 0
    /\ set_a = <<>>
    /\ set_b = <<>>
    /\ load_ok = "unset"
    /\ msgs_unique_to_a = <<>>
    /\ msgs_unique_to_b = <<>>
    /\ pc = "cmp_load_a"
    /\ ParserIdle
    /\ GrouperIdle
    /\ LoggerIdle

NextCompare ==
    \/ LoadRowA
    \/ FileADone
    \/ LoadRowB
    \/ FileBDone
    \/ LoadMessagesFail
    \/ Compare

SpecCompare == InitCompare /\ [][NextCompare]_vars

----------------------------------------------------------------------------
(* read_serial (src/BusSniffer/serial_capture_interactive.py).  One line   *)
(* returned by ser.readline() is one step; the session ends when the port  *)
(* is closed, which can happen before any line.                            *)

CSV_EXPORT_LINE == "=== CSV Export ==="
CSV_HEADER_LINE == "Timestamp_s,ID,Extended,RTR,Length,D0"
CSV_END_LINE == "=== End CSV ==="

SerialLineKinds ==
    {CSV_EXPORT_LINE, CSV_HEADER_LINE, CSV_END_LINE,
     "0.010,0x100,0,0,1,01",
     "0.020,0x200,0,0,1,02 ",     \* blank at the end
     "  ",                        \* blanks only
     "CAN capture started"}

(* line.decode(...).rstrip()                                               *)
RStripText(text) ==
    CASE text = "0.020,0x200,0,0,1,02 " -> "0.020,0x200,0,0,1,02"
      [] text = "  " -> ""
      [] OTHER -> text

(* "=== CSV Export" in line_str or "Timestamp_s,ID" in line_str            *)
ContainsCsvExport(line_str) == line_str = CSV_EXPORT_LINE

ContainsCsvHeader(line_str) == line_str = CSV_HEADER_LINE

(* "=== End CSV" in line_str                                               *)
ContainsEndCsv(line_str) == line_str = CSV_END_LINE

(* line_str.strip() is not empty                                           *)
StripNotEmpty(line_str) == line_str # ""

LineStr == RStripText(serial_in[rx + 1])

(* Mutant: a start marker keeps the lines buffered so far.                 *)
StartBufferKeep(line_str, buffered) ==
    IF ContainsCsvHeader(line_str) THEN Append(buffered, line_str) ELSE buffered

(* csv_lines = [] and, for the header line, csv_lines.append(line_str)     *)
StartBuffer(line_str, buffered) ==
    IF ContainsCsvHeader(line_str) THEN <<line_str>> ELSE <<>>

ReceiveStart ==
    /\ pc = "logging"
    /\ rx < Len(serial_in)
    /\ ContainsCsvExport(LineStr) \/ ContainsCsvHeader(LineStr)
    /\ raw_file' = Append(raw_file, LineStr)
    /\ csv_started' = TRUE
    /\ csv_lines' = StartBuffer(LineStr, csv_lines)
    /\ rx' = rx + 1
    /\ UNCHANGED <<pc, parserVars, groupVars, cmpVars, serial_in, csv_file, csv_writes>>

ReceiveEnd ==
    /\ pc = "logging"
    /\ rx < Len(serial_in)
    /\ ~(ContainsCsvExport(LineStr) \/ ContainsCsvHeader(LineStr))
    /\ csv_started
    /\ ContainsEndCsv(LineStr)
    /\ raw_file' = Append(raw_file, LineStr)
    /\ csv_file' = csv_lines
    /\ csv_writes' = csv_writes + 1
    /\ csv_started' = FALSE
    /\ rx' = rx + 1
    /\ UNCHANGED <<pc, parserVars, groupVars, cmpVars, serial_in, csv_lines>>

ReceiveBuffered ==
    /\ pc = "logging"
    /\ rx < Len(serial_in)
    /\ ~(ContainsCsvExport(LineStr) \/ ContainsCsvHeader(LineStr))
    /\ csv_started
    /\ ~ContainsEndCsv(LineStr)
    /\ raw_file' = Append(raw_file, LineStr)
    /\ csv_lines' = IF StripNotEmpty(LineStr) THEN Append(csv_lines, LineStr)
                    ELSE csv_lines
    /\ rx' = rx + 1
    /\ UNCHANGED <<pc, parserVars, groupVars, cmpVars, serial_in, csv_started,
                   csv_file, csv_writes>>

ReceiveOutside ==
    /\ pc = "logging"
    /\ rx < Len(serial_in)
    /\ ~(ContainsCsvExport(LineStr) \/ ContainsCsvHeader(LineStr))
    /\ ~csv_started
    /\ raw_file' = Append(raw_file, LineStr)
    /\ rx' = rx + 1
    /\ UNCHANGED <<pc, parserVars, groupVars, cmpVars, serial_in, csv_started,
                   csv_lines, csv_file, csv_writes>>

(* main closes the port (Ctrl+C, EOF): ser.is_open turns false.            *)
SessionEnds ==
    /\ pc = "logging"
    /\ pc' = "log_done"
    /\ UNCHANGED <<parserVars, groupVars, cmpVars, logVars>>

(* read_serial started on an open port, and every sequence of up to        *)
(* MaxSerial lines arriving.                                               *)
InitLog ==
    /\ \E n \in 0..MaxSerial : \E arriving \in [1..n -> SerialLineKinds] :
          serial_in = arriving
    /\ rx = 0
    /\ raw_file = <<>>
    /\ csv_started = FALSE
    /\ csv_lines = <<>>
    /\ csv_file = <<>>
    /\ csv_writes = 0
    /\ pc = "logging"
    /\ ParserIdle
    /\ GrouperIdle
    /\ ComparatorIdle

NextLog ==
    \/ ReceiveStart
    \/ ReceiveEnd
    \/ ReceiveBuffered
    \/ ReceiveOutside
    \/ SessionEnds

SpecLog == InitLog /\ [][NextLog]_vars

----------------------------------------------------------------------------
(* Properties.  Frame k was extracted at sync index starts[k] and consumes *)
(* the indices starts[k] .. ConsumedEnd(k) - 1.                            *)

FrameIds == 1..Len(frames)

ConsumedEnd(k) == starts[k] + 2 + Len(frames[k].data) + 1

Consumed(k) == starts[k]..(ConsumedEnd(k) - 1)

(* C1: parse_frames terminates, and every loop iteration strictly          *)
(* increases the cursor: by 2 + len(data) + 1 (at least 2) when a frame is *)
(* appended, by exactly 1 otherwise.                                       *)
CursorStep ==
    (pc = "parsing" /\ i < NumBytes) =>
        /\ i' > i
        /\ IF Len(frames') = Len(frames) + 1
           THEN /\ i' = i + 2 + Len(frames'[Len(frames')].data) + 1
                /\ i' - i >= 2
           ELSE /\ frames' = frames
                /\ i' = i + 1

C1_ProgressAndTermination == [][CursorStep]_vars /\ <>(pc = "done")

(* C1 witness: a finished run that appended a frame and also passed over a *)
(* sync byte whose extraction failed.                                      *)
C1_Witness ==
    /\ pc = "done"
    /\ Len(frames) >= 1
    /\ IsSync(NumBytes - 1)
    /\ i = NumBytes

(* C2: the ranges consumed by consecutive frames never overlap, and no     *)
(* byte consumed by a frame is the sync of a later frame.                  *)
C2_NoOverlap ==
    /\ \A k \in FrameIds : k + 1 \in FrameIds => starts[k + 1] >= ConsumedEnd(k)
    /\ \A k \in FrameIds : \A m \in FrameIds : k < m => starts[m] \notin Consumed(k)

(* C2 witness: two frames back to back, the first one degenerate with a    *)
(* sync byte right after its PID.                                          *)
C2_Witness ==
    /\ Len(frames) >= 2
    /\ starts[2] = ConsumedEnd(1)
    /\ IsSync(starts[1] + 2)

(* C3: every emitted frame has at most 8 data bytes and consumes at most   *)
(* 11 bytes from its sync index.                                           *)
C3_CapInvariant ==
    \A k \in FrameIds :
        /\ Len(frames[k].data) <= 8
        /\ 2 + Len(frames[k].data) + 1 <= 11

(* C3 witness: a frame cut by the cap, with a later sync byte beyond it.   *)
C3_Witness ==
    \E k \in FrameIds :
        /\ Len(frames[k].data) = 8
        /\ \E j \in ConsumedEnd(k)..(NumBytes - 1) : IsSync(j)

(* C4: every frame was extracted at an index holding 0x55 (any case); its  *)
(* sync field is that byte and its pid is the byte right after it.         *)
C4_SyncCorrect ==
    \A k \in FrameIds :
        /\ Upper(ByteHex(starts[k])) = "0X55"
        /\ frames[k].sync = ByteHex(starts[k])
        /\ frames[k].pid = ByteHex(starts[k] + 1)

(* C4 witness: a frame whose sync byte is written in upper case and whose  *)
(* PID differs from the byte after it.                                     *)
C4_Witness ==
    \E k \in FrameIds :
        /\ frames[k].sync = "0X55"
        /\ frames[k].pid # ByteHex(starts[k] + 2)

(* The fixture of C5 at frame k: a gap above the limit between the PID and *)
(* the byte after it, and at least one more byte before the next sync.     *)
GapAfterPid(k) ==
    LET s == starts[k]
    IN  /\ s + 3 < NumBytes
        /\ ByteTime(s + 1) - ByteTime(s) <= GapLimit
        /\ ByteTime(s + 2) - ByteTime(s + 1) > GapLimit
        /\ ~IsSync(s + 2)
        /\ ~IsSync(s + 3)

(* C5 as claimed: with a gap above 1000 us between the PID and the byte at *)
(* s+2, followed by more bytes before the next sync, the frame ends at     *)
(* that gap: zero data bytes, no byte at or after s+2 consumed.            *)
C5_EndsAtGapAfterPid ==
    \A k \in FrameIds :
        GapAfterPid(k) =>
            /\ frames[k].data = <<>>
            /\ ConsumedEnd(k) <= starts[k] + 2

(* C5 amended: the gap between the PID and the byte at s+2 is not examined *)
(* (the timing scan starts at the pair (s+2, s+3)), so the frame does not  *)
(* end there: the byte at s+2 is consumed, as the first data byte, or as   *)
(* the checksum exactly when the frame ends right after it (a gap above    *)
(* 1000 us follows it, or the byte at s+3 is the break of a sync at s+4).  *)
C5_GapAfterPidIgnored ==
    \A k \in FrameIds :
        GapAfterPid(k) =>
            LET s == starts[k]
                endsAfter ==
                    \/ ByteTime(s + 3) - ByteTime(s + 2) > GapLimit
                    \/ /\ s + 4 < NumBytes
                       /\ IsSync(s + 4)
                       /\ Upper(ByteHex(s + 3)) = "0X00"
            IN  /\ s + 2 \in Consumed(k)
                /\ (frames[k].data = <<>>) <=> endsAfter
                /\ IF endsAfter
                   THEN frames[k].checksum = ByteHex(s + 2)
                   ELSE frames[k].data[1] = ByteHex(s + 2)

(* C5 witness: the fixture itself, sync at t=0, PID at t=100, next byte at *)
(* t=2000, and the frame carries that byte as data.                        *)
C5_Witness ==
    \E k \in FrameIds :
        /\ GapAfterPid(k)
        /\ starts[k] = 0
        /\ ByteTime(0) = 0 /\ ByteTime(1) = 100 /\ ByteTime(2) = 2000
        /\ Len(frames[k].data) >= 1
        /\ frames[k].data[1] = ByteHex(2)

(* C6: the 0x00 byte right before the sync of an emitted frame lies        *)
(* outside the range consumed by every emitted frame.                      *)
C6_BreakExcluded ==
    \A k \in FrameIds :
        (starts[k] > 0 /\ Upper(ByteHex(starts[k] - 1)) = "0X00") =>
            \A m \in FrameIds : starts[k] - 1 \notin Consumed(m)

(* C7: the break marker of a frame is present, with the value of the byte  *)
(* at s-1, exactly when s > 0 and that byte is 0x00 (any case); otherwise  *)
(* it is the empty marker.                                                 *)
C7_BreakDetected ==
    \A k \in FrameIds :
        LET s == starts[k]
            present == s > 0 /\ Upper(ByteHex(s - 1)) = "0X00"
        IN  /\ present => frames[k].break_byte = ByteHex(s - 1)
            /\ ~present => frames[k].break_byte = ""
            /\ present <=> frames[k].break_byte # ""

(* C7 witness: one run with a frame after a lower-case 0x00 and a frame    *)
(* without a break.                                                        *)
C7_Witness ==
    /\ \E k \in FrameIds : frames[k].break_byte = "0x00"
    /\ \E k \in FrameIds : frames[k].break_byte = "" /\ starts[k] > 0

(* C8: at a sync byte with fewer than 2 bytes after it no frame is         *)
(* emitted, the run goes on, and the cursor advances by exactly 1.         *)
C8_InsufficientStep ==
    (/\ pc = "parsing"
     /\ i < NumBytes
     /\ IsSync(i)
     /\ NumBytes - (i + 1) < 2) =>
        /\ frames' = frames
        /\ i' = i + 1
        /\ pc' = "parsing"

C8_InsufficientTrailingData == [][C8_InsufficientStep]_vars

(* C8 witness: Scenario D, the stream is a sync and one more byte, and the *)
(* cursor has moved past the sync without a frame.                         *)
C8_Witness ==
    /\ NumBytes = 2
    /\ IsSync(0)
    /\ ~IsSync(1)
    /\ i = 1
    /\ frames = <<>>
    /\ pc = "parsing"

(* C9 as claimed: at every sync candidate s the cursor reaches with        *)
(* s+2 <= length, extraction returns a frame.                              *)
C9_FrameWhenTwoWithinLength ==
    [][(/\ pc = "parsing"
        /\ i < NumBytes
        /\ IsSync(i)
        /\ i + 2 <= NumBytes) =>
            Len(frames') = Len(frames) + 1]_vars

(* C9 amended: at every sync candidate s the cursor reaches with           *)
(* s+2 < length (two bytes after the sync), extraction returns a frame,    *)
(* which is appended with sync index s.                                    *)
C9_FrameWhenTwoBytesFollow ==
    [][(/\ pc = "parsing"
        /\ i < NumBytes
        /\ IsSync(i)
        /\ i + 2 < NumBytes) =>
            /\ Len(frames') = Len(frames) + 1
            /\ starts'[Len(frames')] = i]_vars

(* C9 witness: a frame extracted with exactly two bytes after its sync.    *)
C9_Witness ==
    \E k \in FrameIds : starts[k] + 3 = NumBytes

SyncIndices == {j \in 0..(NumBytes - 1) : IsSync(j)}

(* C10 as claimed: an input with at least one 0x55 byte yields at least    *)
(* one frame.                                                              *)
C10_FrameForAnySync ==
    (pc = "done" /\ SyncIndices # {}) => Len(frames) >= 1

(* C10 amended: the result is empty exactly when no 0x55 byte has two      *)
(* bytes after it; an input with a 0x55 byte followed by at least two      *)
(* bytes yields at least one frame.                                        *)
C10_EmptyIffNoExtractableSync ==
    pc = "done" =>
        ((frames = <<>>) <=> (\A j \in SyncIndices : j + 2 >= NumBytes))

(* C10 witness: a finished run with one frame and a second sync byte, too  *)
(* close to the end, that gave none.                                       *)
C10_Witness ==
    /\ pc = "done"
    /\ Len(frames) = 1
    /\ \E j \in SyncIndices : j > starts[1] /\ j + 2 >= NumBytes

(* The input bytes s+2 .. s+1+n of frame k, n = len(data), in wire order.  *)
WireData(k) == [j \in 1..Len(frames[k].data) |-> ByteHex(starts[k] + 1 + j)]

(* No byte beyond the PID belongs to frame k: the byte at s+2 is a sync, or *)
(* it is the 0x00 break of a sync at s+3.                                  *)
NothingBeyondPid(k) ==
    LET s == starts[k]
    IN  \/ IsSync(s + 2)
        \/ s + 3 < NumBytes /\ IsZero(s + 2) /\ IsSync(s + 3)

(* C11 as claimed: for every emitted frame, data is the input at           *)
(* s+2 .. s+1+len(data) and checksum is the input byte at s+2+len(data).   *)
C11_FieldCarveOut ==
    \A k \in FrameIds :
        /\ frames[k].data = WireData(k)
        /\ frames[k].checksum = ByteHex(starts[k] + 2 + Len(frames[k].data))

(* C11 amended: that holds for every frame with a byte beyond its PID; a   *)
(* frame with none (a sync at s+2, or a break at s+2 before a sync at s+3) *)
(* has data = [] and the checksum "0x00", which is not read from the input.*)
C11_FieldCarveOutBeyondPid ==
    \A k \in FrameIds :
        IF NothingBeyondPid(k)
        THEN /\ frames[k].data = <<>>
             /\ frames[k].checksum = "0x00"
        ELSE /\ frames[k].data = WireData(k)
             /\ frames[k].checksum = ByteHex(starts[k] + 2 + Len(frames[k].data))

(* C11 witness: a frame with three data bytes, not all alike, and a        *)
(* checksum that differs from its last data byte.                          *)
C11_Witness ==
    \E k \in FrameIds :
        /\ Len(frames[k].data) = 3
        /\ frames[k].data[1] # frames[k].data[2]
        /\ frames[k].checksum # frames[k].data[3]

(* C12: every 0x55 byte with at least 2 bytes after it that is not the PID *)
(* of an emitted frame is the sync index of an emitted frame.              *)
C12_NoSyncMissed ==
    pc = "done" =>
        \A j \in SyncIndices :
            (j + 2 < NumBytes /\ ~\E k \in FrameIds : j = starts[k] + 1) =>
                \E k \in FrameIds : starts[k] = j

(* C13: sync indices of successive frames strictly increase, every frame's *)
(* timestamp is the input timestamp at its sync index, and an appended     *)
(* frame is never modified, reordered or removed.                          *)
C13_FramesKept ==
    /\ Len(frames') >= Len(frames)
    /\ \A k \in FrameIds : frames'[k] = frames[k] /\ starts'[k] = starts[k]

C13_InOrder ==
    /\ \A k \in FrameIds : k + 1 \in FrameIds => starts[k] < starts[k + 1]
    /\ \A k \in FrameIds : frames[k].timestamp = ByteTime(starts[k])

C13_ForwardSinglePass == [][C13_FramesKept]_vars /\ []C13_InOrder

(* C13 witness: two frames, the second one stamped later than the first,   *)
(* and the scan still going on after them.                                 *)
C13_Witness ==
    /\ Len(frames) = 2
    /\ frames[1].timestamp < frames[2].timestamp
    /\ frames[2].timestamp = ByteTime(3)
    /\ pc = "done"

(* C14: parse_frames never modifies bytes_data, and every call on the same *)
(* byte sequence returns the same frame sequence, whatever calls came      *)
(* before it.                                                              *)
C14_ReadOnly == pc \in {"parsing", "done"} => bytes_data' = bytes_data

C14_SameResult ==
    \A a, b \in 1..Len(returned) : returned[a] = returned[b]

C14_DeterministicReadOnly == [][C14_ReadOnly]_vars /\ []C14_SameResult

(* C14 witness: two completed calls that each returned two frames.         *)
C14_Witness ==
    /\ Len(returned) = 2
    /\ Len(returned[1]) = 2
    /\ returned[2] = returned[1]
    /\ pc = "done"

----------------------------------------------------------------------------
(* Input-side helpers of C15 and C16: the file as the claims describe it.  *)
HeaderLines == {h \in 1..Len(lines) : ContainsHeader(lines[h])}

EndMarkerBeforeHeader ==
    \E e \in 1..Len(lines) :
        /\ StartsWithEquals(lines[e]) /\ ContainsEnd(lines[e])
        /\ \A h \in HeaderLines : e < h

IsTerminator(line) == line = <<"">> \/ StartsWithEquals(line)

(* The lines after the header and before the first terminator after it.    *)
RowsOfFile ==
    IF HeaderLines = {} THEN <<>>
    ELSE LET h == SetMin(HeaderLines)
             term == {x \in (h + 1)..Len(lines) : IsTerminator(lines[x])}
             last == IF term = {} THEN Len(lines) ELSE SetMin(term) - 1
         IN  SubSeq(lines, h + 1, last)

WellFormedRow(line) == Len(line) = 2 /\ line[1] \in {"100", "250"}

RowTimestamp(line) == IF line[1] = "100" THEN 100 ELSE 250

RowToken(line) == IF line[2] = "0x55" THEN "0x55" ELSE "0x12"

ExpectedBytes ==
    LET good == SelectSeq(RowsOfFile, WellFormedRow)
    IN  [k \in 1..Len(good) |-> <<RowTimestamp(good[k]), RowToken(good[k])>>]

IsPrefix(s, u) == Len(s) <= Len(u) /\ s = SubSeq(u, 1, Len(s))

(* C15 as claimed: after load_capture, bytes_data equals, in file order    *)
(* and with timestamps and tokens as written, exactly the rows after the   *)
(* header and before the first blank or '===' line, minus the rows that    *)
(* are not two fields or whose timestamp is no integer.                    *)
C15_LoadsRowsAfterHeader ==
    (pc = "load_done" /\ readable) => bytes_data = ExpectedBytes

(* C15 amended: the same provided no '===' line containing 'End' precedes  *)
(* the header; with such a line nothing is loaded.  While loading, what is *)
(* loaded is always a prefix of those rows.                                *)
C15_LoadsRowsUnlessEndFirst ==
    /\ pc \in {"load_open", "load_header", "load_rows", "load_done"} =>
            IsPrefix(bytes_data, ExpectedBytes)
    /\ (pc = "load_done" /\ readable) =>
            bytes_data = IF EndMarkerBeforeHeader THEN <<>> ELSE ExpectedBytes

(* C15 witness: a loaded file with a malformed row before a good one, then *)
(* a terminator and a good row after it that is not loaded.                *)
C15_Witness ==
    /\ pc = "load_done"
    /\ Len(lines) = 5
    /\ ContainsHeader(lines[1])
    /\ ~WellFormedRow(lines[2]) /\ ~IsTerminator(lines[2])
    /\ WellFormedRow(lines[3]) /\ lines[3][2] # "0x55"
    /\ IsTerminator(lines[4])
    /\ WellFormedRow(lines[5])
    /\ bytes_data = << <<250, "0x12">> >>

(* C16: load_capture returns True iff at least one byte row was loaded;    *)
(* malformed rows alone never make it fail; with the header missing or an  *)
(* '=== ... End' line before the header it returns False with no bytes     *)
(* loaded.                                                                 *)
C16_FailsOnlyWithoutBytes ==
    pc = "load_done" =>
        /\ result \in {"True", "False"}
        /\ result = "True" <=> Len(bytes_data) > 0
        /\ (readable /\ ~EndMarkerBeforeHeader /\ ExpectedBytes # <<>>) =>
                result = "True"
        /\ (~readable \/ HeaderLines = {} \/ EndMarkerBeforeHeader) =>
                result = "False" /\ bytes_data = <<>>

(* C16 witness: a file with malformed rows and one good row, loaded with   *)
(* result True.                                                            *)
C16_Witness ==
    /\ pc = "load_done"
    /\ result = "True"
    /\ Len(bytes_data) = 1
    /\ Len(RowsOfFile) = 3

(* Input-side helpers of C17..C19 for frame k at sync index s.             *)
LaterSyncs(k) == {j \in (starts[k] + 2)..(NumBytes - 1) : IsSync(j)}

(* No spacing above 1000 us between consecutive bytes of lo..hi.           *)
NoGapWithin(lo, hi) ==
    \A j \in lo..(hi - 1) : ByteTime(j + 1) - ByteTime(j) <= 1000

(* C17: with no gap in the frame body and the first 0x55 at or after s+2   *)
(* at n, s+3 <= n <= s+11: (a) if the byte at n-1 is not 0x00 the frame    *)
(* consumes [s, n), its checksum is the byte at n-1 and the next           *)
(* extraction is attempted at n; (b) if the byte at n-1 is 0x00 and        *)
(* n-1 >= s+3 the frame consumes [s, n-1) and its checksum is byte n-2.    *)
C17_SyncLookahead ==
    \A k \in FrameIds :
        LaterSyncs(k) # {} =>
            LET s == starts[k]
                n == SetMin(LaterSyncs(k))
            IN  /\ (/\ s + 3 <= n /\ n <= s + 11
                    /\ Upper(ByteHex(n - 1)) # "0X00"
                    /\ NoGapWithin(s + 2, n - 1)) =>
                        /\ ConsumedEnd(k) = n
                        /\ frames[k].checksum = ByteHex(n - 1)
                        /\ (k + 1 \in FrameIds => starts[k + 1] = n)
                        /\ ((i > n \/ pc = "done") /\ n + 2 < NumBytes =>
                                k + 1 \in FrameIds)
                /\ (/\ s + 3 <= n /\ n <= s + 11
                    /\ Upper(ByteHex(n - 1)) = "0X00"
                    /\ n - 1 >= s + 3
                    /\ NoGapWithin(s + 2, n - 2)) =>
                        /\ ConsumedEnd(k) = n - 1
                        /\ frames[k].checksum = ByteHex(n - 2)

(* C17 witness: a frame that stops before the 0x00 break of the next sync, *)
(* and the next frame extracted at that sync.                              *)
C17_Witness ==
    \E k \in FrameIds :
        /\ Len(frames[k].data) >= 1
        /\ ConsumedEnd(k) + 1 < NumBytes
        /\ IsZero(ConsumedEnd(k))
        /\ IsSync(ConsumedEnd(k) + 1)
        /\ k + 1 \in FrameIds
        /\ starts[k + 1] = ConsumedEnd(k) + 1

(* The bytes between lo and the next sync after them belong to no frame.   *)
UnframedUpToNextSync(lo) ==
    LET later == {j \in lo..(NumBytes - 1) : IsSync(j)}
    IN  (pc = "done" /\ later # {}) =>
            \A j \in lo..(SetMin(later) - 1) : \A m \in FrameIds : j \notin Consumed(m)

CapOrStreamEnd(k) ==
    LET s == starts[k]
        span == Min(11, NumBytes - s)
    IN  /\ ConsumedEnd(k) = s + span
        /\ frames[k].checksum = ByteHex(s + span - 1)
        /\ UnframedUpToNextSync(s + 11)

NoSyncUnderCap(k) ==
    LET s == starts[k]
    IN  /\ NoGapWithin(s + 2, Min(s + 11, NumBytes) - 1)
        /\ \A j \in (s + 2)..(Min(s + 11, NumBytes) - 1) : ~IsSync(j)

(* C18 as claimed: with no gap in the body and no 0x55 at any index in     *)
(* [s+2, min(s+11, length)), the frame consumes exactly min(11, length-s)  *)
(* bytes, its checksum is the last of them, and the bytes between s+11 and *)
(* a later sync belong to no frame.                                        *)
C18_CapOrEndOfStream ==
    \A k \in FrameIds : NoSyncUnderCap(k) => CapOrStreamEnd(k)

(* C18 amended: the same, unless the byte at s+11 is a 0x55 preceded by a  *)
(* 0x00 at s+10 (then the break is excluded and 10 bytes are consumed).    *)
C18_CapOrEndOfStreamNoBreakAtCap ==
    \A k \in FrameIds :
        LET s == starts[k]
            breakAtCap ==
                /\ s + 11 < NumBytes
                /\ IsSync(s + 11)
                /\ Upper(ByteHex(s + 10)) = "0X00"
        IN  /\ (NoSyncUnderCap(k) /\ ~breakAtCap) => CapOrStreamEnd(k)
            /\ (NoSyncUnderCap(k) /\ breakAtCap) => ConsumedEnd(k) = s + 10

(* C18 witness: a finished run with a frame of 8 data bytes, a byte after  *)
(* it that is no sync, and a sync later on.                                *)
C18_Witness ==
    /\ pc = "done"
    /\ \E k \in FrameIds :
          /\ Len(frames[k].data) = 8
          /\ ConsumedEnd(k) < NumBytes
          /\ ~IsSync(ConsumedEnd(k))
          /\ \E j \in (ConsumedEnd(k) + 1)..(NumBytes - 1) : IsSync(j)

(* C19: with e the tentative end from lookahead and cap, if some j in      *)
(* s+2 .. e-2 has timestamp(j+1) - timestamp(j) > 1000, the frame ends at  *)
(* j_min + 1 for the lowest such j, checksum is the byte at j_min and data *)
(* is s+2 .. j_min-1; otherwise the frame ends at e.  The end never        *)
(* exceeds e.                                                              *)
C19_FirstGapWins ==
    \A k \in FrameIds :
        LET s == starts[k]
            e == ClampedEnd(s)
            gaps == {j \in (s + 2)..(e - 2) : ByteTime(j + 1) - ByteTime(j) > 1000}
        IN  /\ ends[k] <= e
            /\ IF gaps # {}
               THEN LET jmin == SetMin(gaps)
                    IN  /\ ends[k] = jmin + 1
                        /\ ConsumedEnd(k) = jmin + 1
                        /\ frames[k].checksum = ByteHex(jmin)
                        /\ frames[k].data =
                               [x \in 1..(jmin - (s + 2)) |-> ByteHex(s + 1 + x)]
               ELSE ends[k] = e

(* C19 witness: a frame spaced at exactly 1000 us whose body holds two     *)
(* larger gaps, cut at the first of them.                                  *)
C19_Witness ==
    \E k \in FrameIds :
        LET s == starts[k]
        IN  /\ s + 5 < NumBytes
            /\ ByteTime(s + 3) - ByteTime(s + 2) = 1000
            /\ ByteTime(s + 4) - ByteTime(s + 3) > 1000
            /\ ByteTime(s + 5) - ByteTime(s + 4) > 1000
            /\ ClampedEnd(s) = s + 6
            /\ ends[k] = s + 4

(* C20: when boundary resolution at s yields frameEnd <= s+2, extraction   *)
(* does not fail: a frame with data = [] and checksum "0x00" is emitted    *)
(* and the cursor advances by 3.                                           *)
C20_DegenerateStep ==
    (/\ pc = "parsing"
     /\ i + 2 < NumBytes
     /\ IsSync(i)
     /\ FrameEnd(i) <= i + 2) =>
        /\ Len(frames') = Len(frames) + 1
        /\ frames'[Len(frames')].data = <<>>
        /\ frames'[Len(frames')].checksum = "0x00"
        /\ i' = i + 3
        /\ pc' = "parsing"

C20_DegenerateFrames ==
    \A k \in FrameIds :
        (ends[k] <= starts[k] + 2 \/ NothingBeyondPid(k)) =>
            /\ frames[k].data = <<>>
            /\ frames[k].checksum = "0x00"
            /\ ConsumedEnd(k) = starts[k] + 3

C20_DegenerateFallback == [][C20_DegenerateStep]_vars /\ []C20_DegenerateFrames

(* C20 witness: a frame whose PID is followed by a sync byte, emitted with *)
(* the sentinel checksum, and the cursor 3 past its sync.                  *)
C20_Witness ==
    \E k \in FrameIds :
        /\ ends[k] <= starts[k] + 2
        /\ Upper(ByteHex(starts[k] + 2)) = "0X55"
        /\ frames[k].checksum = "0x00"
        /\ i = starts[k] + 3

C24_BoundsSafety ==
    /\ (pc = "parsing" /\ i < NumBytes /\ IsSync(i) /\ CanExtract(i)) =>
            ReadIndices(i) \subseteq 0..(NumBytes - 1)
    /\ \A k \in FrameIds :
            /\ starts[k] + 3 + Len(frames[k].data) <= NumBytes
            /\ Consumed(k) \subseteq 0..(NumBytes - 1)
    /\ i <= NumBytes

(* C24 witness: a degenerate frame whose three consumed bytes are the last *)
(* three of the input, after a frame that read the byte before its sync.   *)
C24_Witness ==
    /\ pc = "done"
    /\ \E k \in FrameIds :
          /\ starts[k] > 0
          /\ frames[k].data = <<>>
          /\ frames[k].checksum = "0x00"
          /\ Upper(ByteHex(starts[k] + 2)) = "0X55"
          /\ starts[k] + 3 = NumBytes

(* Input-side helpers of C21: the rows load_and_group has processed.       *)
ProcessedRows == SubSeq(rows, 1, row_no)

ProcessedSignatures == {RowSignature(ProcessedRows[k]) : k \in 1..row_no}

RowsWith(sig) == SelectSeq(ProcessedRows, LAMBDA r : RowSignature(r) = sig)

TimestampsOf(sig) ==
    [k \in 1..Len(RowsWith(sig)) |-> TimestampOf(RowsWith(sig)[k])]

ObjectsWith(sig) == {o \in 1..Len(objs) : GetSignature(objs[o]) = sig}

(* The places (ID, position) at which object o is registered.              *)
Registrations(o) ==
    {p \in (DOMAIN messages_by_id) \X (1..Len(objs)) :
        p[2] <= Len(messages_by_id[p[1]]) /\ messages_by_id[p[1]][p[2]] = o}

RECURSIVE SumCounts(_)
SumCounts(n) == IF n = 0 THEN 0 ELSE objs[n].count + SumCounts(n - 1)

FileRowSignature(row) == <<row.ID, row.Data, row.Checksum>>

FileSignatures(file) == {FileRowSignature(file[k]) : k \in 1..Len(file)}

ListSignatures(msgs) ==
    {<<msgs[k].msg_id, msgs[k].data, msgs[k].checksum>> : k \in 1..Len(msgs)}

(* C22: compare returns exactly the messages whose (ID, Data, Checksum)    *)
(* occurs in A but not in B, and those in B but not in A, Break ignored;   *)
(* the lists are disjoint, hold no signature present in both sets, and     *)
(* |unique to A| + |common| = |A|, |unique to B| + |common| = |B|.         *)
C22_TwoWayDifference ==
    pc = "compared" =>
        LET sigsA == FileSignatures(file_a)
            sigsB == FileSignatures(file_b)
            common == sigsA \cap sigsB
            ua == ListSignatures(msgs_unique_to_a)
            ub == ListSignatures(msgs_unique_to_b)
        IN  /\ ua = sigsA \ sigsB
            /\ ub = sigsB \ sigsA
            /\ Len(msgs_unique_to_a) = Cardinality(ua)
            /\ Len(msgs_unique_to_b) = Cardinality(ub)
            /\ \A k \in 1..Len(msgs_unique_to_a) :
                  \E r \in 1..Len(file_a) :
                      /\ FileRowSignature(file_a[r]) =
                            <<msgs_unique_to_a[k].msg_id, msgs_unique_to_a[k].data,
                              msgs_unique_to_a[k].checksum>>
                      /\ file_a[r].Timestamps = msgs_unique_to_a[k].timestamps
            /\ \A k \in 1..Len(msgs_unique_to_b) :
                  \E r \in 1..Len(file_b) :
                      /\ FileRowSignature(file_b[r]) =
                            <<msgs_unique_to_b[k].msg_id, msgs_unique_to_b[k].data,
                              msgs_unique_to_b[k].checksum>>
                      /\ file_b[r].Timestamps = msgs_unique_to_b[k].timestamps
            /\ ua \cap ub = {}
            /\ (ua \cup ub) \cap common = {}
            /\ Len(msgs_unique_to_a) + Cardinality(common) = Cardinality(DOMAIN set_a)
            /\ Len(msgs_unique_to_b) + Cardinality(common) = Cardinality(DOMAIN set_b)
            /\ Cardinality(DOMAIN set_a) = Cardinality(sigsA)
            /\ Cardinality(DOMAIN set_b) = Cardinality(sigsB)

(* C22 witness: one message unique to each side and one in common whose    *)
(* rows differ in Break between the two files.                             *)
C22_Witness ==
    /\ pc = "compared"
    /\ Len(msgs_unique_to_a) = 1
    /\ Len(msgs_unique_to_b) = 1
    /\ \E ra \in 1..Len(file_a) : \E rb \in 1..Len(file_b) :
          /\ FileRowSignature(file_a[ra]) = FileRowSignature(file_b[rb])
          /\ file_a[ra].Break # file_b[rb].Break

(* The last row of the file with the given comparison signature.           *)
LastRowWith(file, sig) ==
    LET at == {k \in 1..Len(file) : FileRowSignature(file[k]) = sig}
    IN  file[CHOOSE k \in at : \A m \in at : m <= k]

LastRowWins(file, messages) ==
    /\ DOMAIN messages = FileSignatures(file)
    /\ Cardinality(DOMAIN messages) = Cardinality(FileSignatures(file))
    /\ \A sig \in FileSignatures(file) :
          /\ messages[sig].timestamps = LastRowWith(file, sig).Timestamps
          /\ LastRowWith(file, sig).Count =
                CASE messages[sig].count = 1 -> "1"
                  [] messages[sig].count = 2 -> "2"
                  [] messages[sig].count = 3 -> "3"
                  [] OTHER -> "none"

(* C25: after load_messages each set holds, for every (ID, Data, Checksum) *)
(* of its file, only the last row with it, with that row's Count and       *)
(* Timestamps; counts are not summed, and len(set) is the number of        *)
(* distinct signatures.                                                    *)
C25_LastRowWins ==
    pc \in {"cmp_loaded", "compared"} =>
        LastRowWins(file_a, set_a) /\ LastRowWins(file_b, set_b)

(* C25 witness: file A has three rows, the first and last with the same    *)
(* signature but different Break and Count; set_a holds two messages and   *)
(* the last row's count.                                                   *)
C25_Witness ==
    /\ pc = "cmp_loaded"
    /\ Len(file_a) = 3
    /\ FileRowSignature(file_a[1]) = FileRowSignature(file_a[3])
    /\ FileRowSignature(file_a[1]) # FileRowSignature(file_a[2])
    /\ file_a[1].Break # file_a[3].Break
    /\ file_a[1].Count = "1" /\ file_a[3].Count = "2"
    /\ Cardinality(DOMAIN set_a) = 2
    /\ set_a[FileRowSignature(file_a[1])].count = 2

(* Input-side helpers of C26: the lines received so far and the markers    *)
(* among them.                                                             *)
Received(k) == RStripText(serial_in[k])

IsStartMarker(k) ==
    Received(k) = "=== CSV Export ===" \/ Received(k) = "Timestamp_s,ID,Extended,RTR,Length,D0"

IsEndMarker(k) == Received(k) = "=== End CSV ==="

(* The most recent start marker among lines 1..n, 0 if there is none.      *)
LastStart(n) ==
    LET at == {k \in 1..n : IsStartMarker(k)}
    IN  IF at = {} THEN 0 ELSE CHOOSE k \in at : \A m \in at : m <= k

(* CSV capture is active after line n.                                     *)
CaptureActive(n) ==
    /\ LastStart(n) # 0
    /\ \A k \in (LastStart(n) + 1)..n : ~IsEndMarker(k)

(* The lines at which the CSV file is written.                             *)
WritePoints(n) == {k \in 1..n : IsEndMarker(k) /\ CaptureActive(k - 1)}

(* What the CSV file holds when written at line w.                         *)
CsvContentAt(w) ==
    LET s == LastStart(w - 1)
        first == IF Received(s) = "Timestamp_s,ID,Extended,RTR,Length,D0"
                 THEN <<Received(s)>> ELSE <<>>
        since == [k \in 1..(w - 1 - s) |-> Received(s + k)]
    IN  first \o SelectSeq(since, LAMBDA l : l # "")

====
